---- MODULE Spec2Model ----
(***************************************************************************)
(* A model of ApplySyntax.py: the Sublime Text event listener that picks a *)
(* syntax for a view from an ordered list of rules.                        *)
(*                                                                         *)
(* Python strings are sequences of symbols (one-character strings, and a   *)
(* few multi-character atoms such as "Packages" for fixed literals).       *)
(* Regular expressions are sequences of tokens (an atom and a quantifier), *)
(* matched the way re.match matches: anchored at position 0, any prefix.   *)
(***************************************************************************)
EXTENDS Integers, Sequences, FiniteSets, TLC

\* ------------------------------------------------------------ bounds ----
MaxLineLen == 4
MaxValueLen == 1
MaxPathLen == 2

\* ------------------------------------------------------ Python values ---
\* None, for a value that is otherwise a string
None == <<"<None>">>
\* JSON false, for a setting that is otherwise a string
JsonFalse == <<"<false>">>

\* bool(x) for a string-or-None value
Truthy(x) == x # None /\ x # JsonFalse /\ x # <<>>

\* bool(x) for a JSON scalar "true" / "false" / "null"
TruthyFlag(x) == x = "true"

RECURSIVE SeqsUpTo(_, _)
SeqsUpTo(S, n) ==
    IF n = 0 THEN {<<>>}
    ELSE LET shorter == SeqsUpTo(S, n - 1)
         IN shorter \cup {Append(s, c) : s \in shorter, c \in S}

\* -------------------------------------------------- re.match (library) --
\* A token: k is "bol" (^), "eol" ($), "lit" (the character c), "any" (.)
\* or "bad" (something re.compile rejects); q is "1", "+" or "*".
Tok(k, c, q) == [k |-> k, c |-> c, q |-> q]
Lit(c) == Tok("lit", c, "1")
Bol == Tok("bol", "", "1")
AnyPlus == Tok("any", "", "+")
AnyStar == Tok("any", "", "*")
BadTok == Tok("bad", "", "1")

Accepts(tok, ch) == tok.k = "any" \/ (tok.k = "lit" /\ tok.c = ch)

\* re.compile raises re.error
re_error(regexp) == \E i \in 1..Len(regexp) : regexp[i].k = "bad"

RECURSIVE MatchFrom(_, _, _, _)
MatchFrom(regexp, i, subject, j) ==
    IF i > Len(regexp) THEN TRUE
    ELSE LET tok == regexp[i] IN
         CASE tok.k = "bol" -> j = 1 /\ MatchFrom(regexp, i + 1, subject, j)
           [] tok.k = "eol" -> j = Len(subject) + 1 /\ MatchFrom(regexp, i + 1, subject, j)
           [] OTHER ->
                LET least == IF tok.q = "*" THEN 0 ELSE 1
                    rest == Len(subject) - j + 1
                    most == IF tok.q = "1" /\ rest >= 1 THEN 1 ELSE rest
                IN \E n \in least..most :
                      /\ \A m \in j..(j + n - 1) : Accepts(tok, subject[m])
                      /\ MatchFrom(regexp, i + 1, subject, j + n)

\* re.match(regexp, subject) is not None, for a regexp that compiles
re_match(regexp, subject) == MatchFrom(regexp, 1, subject, 1)

\* --------------------------------------------------- eval (library) -----
\* The value of one escape \c inside a Python string literal.
Escape(c) ==
    CASE c = "'" -> <<"'">>
      [] c = "\\" -> <<"\\">>
      [] c = "n" -> <<"<LF>">>
      [] OTHER -> <<"\\", c>>

SyntaxError == <<"<SyntaxError>">>

IsTriple(s, i) == i + 2 <= Len(s) /\ s[i] = "'" /\ s[i + 1] = "'" /\ s[i + 2] = "'"

\* The Python tokenizer over the argument list of a call: one or more
\* adjacent string literals ('...' or '''...'''), then ")" and the end.
\* mode is "out" (between literals), "q1" (inside '...') or "q3".
RECURSIVE PyArg(_, _, _, _, _)
PyArg(s, i, mode, acc, n) ==
    IF i > Len(s) THEN SyntaxError
    ELSE CASE mode = "out" ->
                IF s[i] = ")" THEN (IF i = Len(s) /\ n > 0 THEN acc ELSE SyntaxError)
                ELSE IF IsTriple(s, i) THEN PyArg(s, i + 3, "q3", acc, n + 1)
                ELSE IF s[i] = "'" THEN PyArg(s, i + 1, "q1", acc, n + 1)
                ELSE SyntaxError
           [] OTHER ->
                IF s[i] = "\\" THEN
                    (IF i + 1 > Len(s) THEN SyntaxError
                     ELSE PyArg(s, i + 2, mode, acc \o Escape(s[i + 1]), n))
                ELSE IF mode = "q1" /\ s[i] = "'" THEN PyArg(s, i + 1, "out", acc, n)
                ELSE IF mode = "q3" /\ IsTriple(s, i) THEN PyArg(s, i + 3, "out", acc, n)
                ELSE PyArg(s, i + 1, mode, Append(acc, s[i]), n)

\* The argument a call expression name + "(" + args evaluates to, or
\* SyntaxError; `call` is the text after the procedure's name.
PyCallArgument(call) ==
    IF Len(call) = 0 \/ call[1] # "(" THEN SyntaxError
    ELSE PyArg(call, 2, "out", <<>>, 0)

\* ------------------------------------------------ host collaborators ---
\* sublime.platform()
platform == "linux"

\* os.path.sep
sep == IF platform = "windows" THEN "\\" ELSE "/"

\* The syntax definitions sublime.load_resource can load.
SyntaxA == <<"A">>
SyntaxB == <<"W", "/", "B">>
SyntaxC == <<"C">>
SyntaxResources ==
    { <<"Packages", "/", "A", "/", "A", ".tmLanguage">>,
      <<"Packages", "/", "W", "/", "B", ".tmLanguage">> }

\* What a procedure defined by a function source does with its argument:
\* [raised, value], value being the truth of what it returns.
ProcCall(behaviour, arg) ==
    CASE behaviour = "starts_with_p" ->
            [raised |-> FALSE, value |-> Len(arg) > 0 /\ arg[1] = "p"]
      [] behaviour = "returns_arg" -> [raised |-> FALSE, value |-> arg # <<>>]
      [] OTHER -> [raised |-> TRUE, value |-> FALSE]

\* The function sources that exist: text.ok says whether exec(text) succeeds,
\* text.defs maps the procedures it defines to what they do.
GoodText == [ok |-> TRUE, defs |-> [is_p |-> "starts_with_p", echo |-> "returns_arg",
                                    boom |-> "raises"]]
BrokenText == [ok |-> FALSE, defs |-> [is_p |-> "starts_with_p"]]
NoText == [ok |-> FALSE, defs |-> [none |-> "raises"]]

PackagedSources ==
    { <<"Packages", "/", "ApplySyntax", "/", "is_p", ".py">>,
      <<"Packages", "/", "User", "/", "lib", ".py">> }
FileSources == { <<"/", "broken", ".py">> }

\* sublime.load_resource(path) for a function source
load_resource(path) ==
    IF path \in PackagedSources THEN [raised |-> FALSE, text |-> GoodText]
    ELSE [raised |-> TRUE, text |-> NoText]

\* open(path, 'r').read()
read_file(path) ==
    IF path \in FileSources THEN [raised |-> FALSE, text |-> BrokenText]
    ELSE [raised |-> TRUE, text |-> NoText]

\* os.path.isabs
isabs(path) == Len(path) > 0 /\ path[1] = "/"

\* re.match(r"^Packages(?:\\|/)", path) is not None
PackagesPrefix(path) == Len(path) >= 2 /\ path[1] = "Packages" /\ path[2] \in {"/", "\\"}

\* ------------------------------------------------------------ plugin ----
plugin_name == <<"ApplySyntax">>
plugin_dir == <<"Packages", "/">> \o plugin_name

\* The outcome of evaluating one predicate.
Raised == [raised |-> TRUE, value |-> FALSE, arg |-> None]
Result(b) == [raised |-> FALSE, value |-> b, arg |-> None]

\* get_function with the failure swallowed in either mode.
get_function_mutant(self, path_to_file, read_direct) ==
    LET got == IF read_direct THEN read_file(path_to_file) ELSE load_resource(path_to_file)
    IN IF got.raised THEN [raised |-> FALSE, found |-> FALSE, text |-> NoText]
       ELSE [raised |-> FALSE, found |-> TRUE, text |-> got.text]

get_function(self, path_to_file, read_direct) ==
    LET got == IF read_direct THEN read_file(path_to_file) ELSE load_resource(path_to_file)
    IN IF got.raised
       THEN (IF TruthyFlag(self.reraise_exceptions)
             THEN [raised |-> TRUE, found |-> FALSE, text |-> NoText]
             ELSE [raised |-> FALSE, found |-> FALSE, text |-> NoText])
       ELSE [raised |-> FALSE, found |-> TRUE, text |-> got.text]

\* The evaluation of the call expression once its argument list is read.
call_procedure(text, function_name, arg) ==
    IF arg = SyntaxError THEN Raised
    ELSE IF function_name[1] \notin DOMAIN text.defs THEN Raised  \* NameError
    ELSE LET r == ProcCall(text.defs[function_name[1]], arg)
         IN [raised |-> r.raised, value |-> r.value, arg |-> arg]

\* eval(function_name + '(\'' + self.file_name + '\')')
eval_call(self, text, function_name) ==
    IF self.file_name = None THEN Raised      \* str + None: TypeError
    ELSE call_procedure(text, function_name,
                        PyCallArgument(<<"(", "'">> \o self.file_name \o <<"'", ")">>))

function_matches(self, rule) ==
    LET function == rule.function
        source == IF "source" \in DOMAIN function THEN function.source ELSE None
        function_name == function.name
        named == IF ~Truthy(source) THEN function_name \o <<".py">> ELSE source
        path_to_file == IF ~isabs(named) /\ ~PackagesPrefix(named)
                        THEN plugin_dir \o <<sep>> \o named ELSE named
        got == get_function(self, path_to_file, isabs(named))
        swallow(r) == IF r.raised /\ ~TruthyFlag(self.reraise_exceptions)
                      THEN [raised |-> FALSE, value |-> FALSE, arg |-> r.arg] ELSE r
    IN IF got.raised THEN Raised
       ELSE IF ~got.found THEN Result(FALSE)
       ELSE IF ~got.text.ok THEN swallow(Raised)
       ELSE swallow(eval_call(self, got.text, function_name))

\* The prefix with .* for .+
binary_regexp_mutant(value) == <<Bol, Lit("#"), Lit("!"), AnyStar>> \o value

\* '^#\\!(?:.+)' + rule.get("binary")
binary_regexp(value) == <<Bol, Lit("#"), Lit("!"), AnyPlus>> \o value

regexp_matches(self, rule) ==
    LET known == DOMAIN rule \cap {"first_line", "binary", "file_name"} # {}
        subject == IF "first_line" \in DOMAIN rule THEN self.first_line
                   ELSE IF "binary" \in DOMAIN rule THEN self.first_line
                   ELSE self.file_name
        regexp == IF "first_line" \in DOMAIN rule THEN rule.first_line
                  ELSE IF "binary" \in DOMAIN rule THEN binary_regexp(rule.binary)
                  ELSE rule.file_name
    IN IF ~known THEN Result(FALSE)
       ELSE IF regexp # <<>> /\ Truthy(subject)
            THEN (IF re_error(regexp) THEN Raised ELSE Result(re_match(regexp, subject)))
            ELSE Result(FALSE)

\* One predicate of a rule, as syntax_matches dispatches it.
rule_matches(self, rule) ==
    IF "function" \in DOMAIN rule THEN function_matches(self, rule)
    ELSE regexp_matches(self, rule)

\* The loop of syntax_matches from predicate j on. log collects, per
\* predicate evaluated, its index, its outcome and the argument handed to an
\* external procedure.
Eval(j, r) == [pred |-> j, raised |-> r.raised, value |-> r.value, arg |-> r.arg]

\* The loop without its early returns: every predicate is evaluated.
RECURSIVE rules_loop_eager(_, _, _, _, _)
rules_loop_eager(self, syntax, j, log, acc) ==
    LET rules == syntax.rules
        match_all == "match" \in DOMAIN syntax /\ syntax.match = "all"
        step(result) ==
            LET log2 == Append(log, Eval(j, result))
            IN IF result.raised THEN [raised |-> TRUE, value |-> FALSE, log |-> log2]
               ELSE rules_loop_eager(self, syntax, j + 1, log2,
                        IF match_all THEN acc /\ result.value ELSE acc \/ result.value)
    IN IF j > Len(rules) THEN [raised |-> FALSE, value |-> acc, log |-> log]
       ELSE step(rule_matches(self, rules[j]))

rules_loop_mutant(self, syntax, j, log) ==
    rules_loop_eager(self, syntax, j, log, "match" \in DOMAIN syntax /\ syntax.match = "all")

RECURSIVE rules_loop(_, _, _, _)
rules_loop(self, syntax, j, log) ==
    LET rules == syntax.rules
        match_all == "match" \in DOMAIN syntax /\ syntax.match = "all"
        step(result) ==
            LET log2 == Append(log, Eval(j, result))
            IN IF result.raised THEN [raised |-> TRUE, value |-> FALSE, log |-> log2]
               ELSE IF match_all /\ ~result.value
                    THEN [raised |-> FALSE, value |-> FALSE, log |-> log2]
               ELSE IF ~match_all /\ result.value
                    THEN [raised |-> FALSE, value |-> TRUE, log |-> log2]
               ELSE rules_loop(self, syntax, j + 1, log2)
    IN IF j > Len(rules) THEN [raised |-> FALSE, value |-> match_all, log |-> log]
       ELSE step(rule_matches(self, rules[j]))

syntax_matches(self, syntax) == rules_loop(self, syntax, 1, <<>>)

\* os.path.dirname and os.path.basename
Seps == IF platform = "windows" THEN {"/", "\\"} ELSE {"/"}

LastSep(name) ==
    LET at == {i \in 1..Len(name) : name[i] \in Seps}
    IN IF at = {} THEN 0 ELSE CHOOSE i \in at : \A k \in at : k <= i

RECURSIVE rstrip(_)
rstrip(head) ==
    IF head # <<>> /\ head[Len(head)] \in Seps THEN rstrip(SubSeq(head, 1, Len(head) - 1))
    ELSE head

dirname(name) ==
    LET head == SubSeq(name, 1, LastSep(name))
    IN IF rstrip(head) # <<>> THEN rstrip(head) ELSE head

basename(name) == SubSeq(name, LastSep(name) + 1, Len(name))

Letters == {"A", "B", "C", "W", "p", "n"}

sublime_format_path(pth) ==
    LET drive == Len(pth) >= 3 /\ pth[1] \in Letters /\ pth[2] = ":" /\ pth[3] \in {"/", "\\"}
        pth2 == IF platform = "windows" /\ drive THEN <<"/">> \o pth ELSE pth
    IN [i \in 1..Len(pth2) |-> IF pth2[i] = "\\" THEN "/" ELSE pth2[i]]

\* The resource path set_syntax computes for a logical name.
new_syntax_of(name) ==
    LET path == IF dirname(name) = <<>> THEN basename(name) ELSE dirname(name)
        file_name == basename(name) \o <<".tmLanguage">>
    IN sublime_format_path(<<"Packages", "/">> \o path \o <<"/">> \o file_name)

\* set_syntax without the comparison with the current syntax.
set_syntax_mutant(current_syntax, name) ==
    IF new_syntax_of(name) \in SyntaxResources
    THEN [syntax |-> new_syntax_of(name), outcome |-> "Applied"]
    ELSE [syntax |-> current_syntax, outcome |-> "NotFound"]

\* set_syntax on a view whose syntax is current_syntax: the view's syntax
\* afterwards, and whether view.set_syntax_file was called ("Applied"), the
\* name was already current ("Skipped") or the resource failed to load.
set_syntax(current_syntax, name) ==
    LET new_syntax == new_syntax_of(name)
    IN IF new_syntax # current_syntax
       THEN (IF new_syntax \in SyntaxResources
             THEN [syntax |-> new_syntax, outcome |-> "Applied"]
             ELSE [syntax |-> current_syntax, outcome |-> "NotFound"])
       ELSE [syntax |-> current_syntax, outcome |-> "Skipped"]

\* The bare user settings file ensure_user_settings writes.
Template == [reraise_exceptions |-> "false", new_file_syntax |-> JsonFalse, syntaxes |-> <<>>]

ensure_user_settings(file) ==
    IF file.exists THEN file ELSE [exists |-> TRUE, keys |-> Template]

\* sublime.load_settings: the user's file over the package's.
load_settings(file, package) ==
    LET user == IF file.exists THEN file.keys ELSE <<>>
    IN [k \in DOMAIN user \cup DOMAIN package |->
            IF k \in DOMAIN user THEN user[k] ELSE package[k]]

\* reset_cache_variables keeping a first line and a file name already cached.
reset_cache_variables_mutant(self, v) ==
    [self EXCEPT !.view = 1,
                 !.file_name = IF self.file_name = None THEN v.file_name ELSE self.file_name,
                 !.first_line = IF self.first_line = None THEN v.first_line
                                ELSE self.first_line,
                 !.syntaxes = <<>>, !.reraise_exceptions = "false"]

reset_cache_variables(self, v) ==
    [self EXCEPT !.view = 1, !.file_name = v.file_name, !.first_line = v.first_line,
                 !.syntaxes = <<>>, !.reraise_exceptions = "false"]

\* load_syntaxes with the two sides in the other order.
load_syntaxes_mutant(self, settings) ==
    LET default_syntaxes == IF "default_syntaxes" \in DOMAIN settings
                            THEN settings.default_syntaxes ELSE <<>>
        user_syntaxes == IF "syntaxes" \in DOMAIN settings THEN settings.syntaxes ELSE <<>>
    IN [self EXCEPT !.reraise_exceptions = IF "reraise_exceptions" \in DOMAIN settings
                                           THEN settings.reraise_exceptions ELSE "null",
                    !.syntaxes = default_syntaxes \o user_syntaxes]

load_syntaxes(self, settings) ==
    LET default_syntaxes == IF "default_syntaxes" \in DOMAIN settings
                            THEN settings.default_syntaxes ELSE <<>>
        user_syntaxes == IF "syntaxes" \in DOMAIN settings THEN settings.syntaxes ELSE <<>>
    IN [self EXCEPT !.reraise_exceptions = IF "reraise_exceptions" \in DOMAIN settings
                                           THEN settings.reraise_exceptions ELSE "null",
                    !.syntaxes = user_syntaxes \o default_syntaxes]

\* The loop of detect_syntax from entry i on: the predicates evaluated, whether
\* an exception left the loop, and the entry handed to set_syntax (0: none).
Tag(i, log) == [k \in 1..Len(log) |-> [entry |-> i, pred |-> log[k].pred,
                  raised |-> log[k].raised, value |-> log[k].value, arg |-> log[k].arg]]

\* The loop without its break: every entry is evaluated and the last match wins.
RECURSIVE syntaxes_loop_no_break(_, _, _, _)
syntaxes_loop_no_break(self, i, log, chosen) ==
    LET step(r) ==
            LET log2 == log \o Tag(i, r.log)
            IN IF r.raised THEN [raised |-> TRUE, chosen |-> 0, log |-> log2]
               ELSE syntaxes_loop_no_break(self, i + 1, log2, IF r.value THEN i ELSE chosen)
    IN IF i > Len(self.syntaxes) THEN [raised |-> FALSE, chosen |-> chosen, log |-> log]
       ELSE step(syntax_matches(self, self.syntaxes[i]))

syntaxes_loop_mutant(self, i, log) == syntaxes_loop_no_break(self, i, log, 0)

RECURSIVE syntaxes_loop(_, _, _)
syntaxes_loop(self, i, log) ==
    LET step(r) ==
            LET log2 == log \o Tag(i, r.log)
            IN IF r.raised THEN [raised |-> TRUE, chosen |-> 0, log |-> log2]
               ELSE IF r.value THEN [raised |-> FALSE, chosen |-> i, log |-> log2]
               ELSE syntaxes_loop(self, i + 1, log2)
    IN IF i > Len(self.syntaxes) THEN [raised |-> FALSE, chosen |-> 0, log |-> log]
       ELSE step(syntax_matches(self, self.syntaxes[i]))

\* `not view.file_name`: the attribute is the bound method, never called
\* here, and a bound method is true.
not_file_name_attr(v) == FALSE

\* ------------------------------------------------------------- state ----
VARIABLES
    view,        \* the document: file_name, first_line, scratch, syntax
    user_file,   \* the user's settings file: exists, keys
    package,     \* the package's settings file
    self,        \* the listener's instance fields
    last,        \* what the handler that produced this state did
    applied      \* set_syntax calls since the syntax was last changed elsewhere

vars == <<view, user_file, package, self, last, applied>>

\* ----------------------------------------------------- configurations ---
Shebang == <<Lit("#"), Lit("!")>>
StartsP == <<Lit("p")>>
BadRegexp == <<BadTok>>

EntryAll == [name |-> SyntaxA, match |-> "all",
             rules |-> <<[first_line |-> Shebang], [file_name |-> StartsP]>>]
EntryAny == [name |-> SyntaxB, match |-> "any",
             rules |-> <<[function |-> [name |-> <<"gone">>]], [binary |-> StartsP]>>]
EntryBad == [name |-> SyntaxB, rules |-> <<[first_line |-> BadRegexp], [file_name |-> StartsP]>>]
LibSource == <<"Packages", "/", "User", "/", "lib", ".py">>
BrokenSource == <<"/", "broken", ".py">>

EntryFun == [name |-> SyntaxC, match |-> "any",
             rules |-> <<[function |-> [name |-> <<"is_p">>]],
                         [function |-> [source |-> LibSource, name |-> <<"boom">>]],
                         [file_name |-> StartsP]>>]
EntryLib == [name |-> SyntaxB, match |-> "all",
             rules |-> <<[function |-> [source |-> LibSource, name |-> <<"echo">>]],
                         [function |-> [source |-> BrokenSource, name |-> <<"is_p">>]]>>]
EntryEmpty == [name |-> SyntaxA, match |-> "all", rules |-> <<>>]

UserSyntaxes == { <<EntryAll>>, <<EntryAny, EntryAll>>, <<EntryBad, EntryAll>> }
DefaultSyntaxes == { <<EntryFun, EntryEmpty>>, <<EntryLib, EntryAll>> }
Packages == { <<>> } \cup { [default_syntaxes |-> d] : d \in DefaultSyntaxes }

FileNames == { None, <<"p">>, <<"n">> }
FirstLines == { <<>>, <<"#", "!", "p">>, <<"#", "!", "/", "p">> }
InitialSyntax == <<"Packages", "/", "Text", "/", "Plain text", ".tmLanguage">>
Syntaxes == {InitialSyntax} \cup SyntaxResources

SettingValues(key) ==
    CASE key = "reraise_exceptions" -> {"true", "false"}
      [] key = "syntaxes" -> UserSyntaxes \cup { <<>> }
      [] key = "new_file_syntax" -> {JsonFalse, SyntaxA, SyntaxC}

SettingKeys == {"reraise_exceptions", "syntaxes", "new_file_syntax"}

\* Every user settings file over SettingKeys, and none.
UserFiles ==
    { [exists |-> FALSE, keys |-> Template] } \cup
    { [exists |-> TRUE,
       keys |-> [k \in K |-> CASE k = "reraise_exceptions" -> r
                               [] k = "syntaxes" -> s
                               [] OTHER -> n]] :
        K \in SUBSET SettingKeys, r \in SettingValues("reraise_exceptions"),
        s \in SettingValues("syntaxes"), n \in SettingValues("new_file_syntax") }

\* stale: the entries the listener held before the event were not those the
\* event loaded.
Idle == [op |-> "none", loaded |-> FALSE, log |-> <<>>, raised |-> FALSE, chosen |-> 0,
         set_name |-> None, outcome |-> "none", before |-> None, stale |-> FALSE]

Constructed == [first_line |-> None, file_name |-> None, view |-> 0, syntaxes |-> <<>>,
                reraise_exceptions |-> "false"]

\* A new, empty buffer; the user has set new_file_syntax.
Init ==
    /\ view = [file_name |-> None, first_line |-> <<>>, scratch |-> FALSE,
               syntax |-> InitialSyntax]
    /\ user_file = [exists |-> TRUE, keys |-> [Template EXCEPT !.new_file_syntax = SyntaxA]]
    /\ package = [default_syntaxes |-> <<EntryFun, EntryEmpty>>]
    /\ self = Constructed
    /\ last = Idle
    /\ applied = <<>>

\* Any document under any configuration, before the first event.
InitSelect ==
    /\ view \in [file_name : FileNames, first_line : FirstLines, scratch : BOOLEAN,
                 syntax : Syntaxes]
    /\ user_file \in UserFiles
    /\ package \in Packages
    /\ self = Constructed
    /\ last = Idle
    /\ applied = <<>>

\* The last two set_syntax calls.
Remember(hist, name, outcome, before) ==
    LET h == Append(hist, [name |-> name, outcome |-> outcome, before |-> before])
    IN IF Len(h) > 2 THEN Tail(h) ELSE h

\* ---------------------------------------------------------- handlers ----
\* The loop of detect_syntax and its set_syntax call, on the reloaded fields.
scan_and_set(op, self2, scan) ==
    LET name == IF scan.chosen = 0 THEN None ELSE self2.syntaxes[scan.chosen].name
        set == set_syntax(view.syntax, name)
        stale == /\ self.syntaxes # <<>> /\ self.syntaxes # self2.syntaxes
                 /\ self.first_line # self2.first_line
                 /\ self.file_name # self2.file_name
                 /\ self.reraise_exceptions # self2.reraise_exceptions
    IN /\ user_file' = ensure_user_settings(user_file)
       /\ self' = self2
       /\ UNCHANGED package
       /\ IF scan.chosen = 0
          THEN /\ UNCHANGED <<view, applied>>
               /\ last' = [op |-> op, loaded |-> TRUE, log |-> scan.log,
                           raised |-> scan.raised, chosen |-> 0, set_name |-> None,
                           outcome |-> "none", before |-> view.syntax,
                           stale |-> stale]
          ELSE /\ view' = [view EXCEPT !.syntax = set.syntax]
               /\ applied' = Remember(applied, name, set.outcome, view.syntax)
               /\ last' = [op |-> op, loaded |-> TRUE, log |-> scan.log,
                           raised |-> FALSE, chosen |-> scan.chosen, set_name |-> name,
                           outcome |-> set.outcome, before |-> view.syntax,
                           stale |-> stale]

\* The listener's fields once reset_cache_variables and load_syntaxes have run.
reloaded ==
    load_syntaxes(reset_cache_variables(self, view),
                  load_settings(ensure_user_settings(user_file), package))

detect_syntax(op) ==
    IF view.scratch \/ not_file_name_attr(view)
    THEN /\ last' = [Idle EXCEPT !.op = op, !.before = view.syntax]
         /\ UNCHANGED <<view, user_file, package, self, applied>>
    ELSE scan_and_set(op, reloaded,
                      IF reloaded.syntaxes = <<>>
                      THEN [raised |-> FALSE, chosen |-> 0, log |-> <<>>]
                      ELSE syntaxes_loop(reloaded, 1, <<>>))

on_load == detect_syntax("on_load")

on_post_save == detect_syntax("on_post_save")

on_new ==
    LET file == ensure_user_settings(user_file)
        settings == load_settings(file, package)
        name == IF "new_file_syntax" \in DOMAIN settings THEN settings.new_file_syntax ELSE None
        set == set_syntax(view.syntax, name)
    IN /\ user_file' = file
       /\ UNCHANGED package
       /\ IF Truthy(name)
          THEN /\ self' = [self EXCEPT !.view = 1]
               /\ view' = [view EXCEPT !.syntax = set.syntax]
               /\ applied' = Remember(applied, name, set.outcome, view.syntax)
               /\ last' = [Idle EXCEPT !.op = "on_new", !.set_name = name,
                                       !.outcome = set.outcome, !.before = view.syntax]
          ELSE /\ UNCHANGED <<self, view, applied>>
               /\ last' = [Idle EXCEPT !.op = "on_new", !.before = view.syntax]

\* ------------------------------------------------------- environment ----
\* The values the user's edits choose from.
EditValues(key) ==
    CASE key = "reraise_exceptions" -> {"true", "false"}
      [] OTHER -> { <<EntryAny, EntryAll>>, <<EntryBad, EntryAll>> }

\* The user edits one key of the user settings file.
EditUserSetting ==
    \E key \in {"reraise_exceptions", "syntaxes"} : \E value \in EditValues(key) :
        /\ user_file.exists
        /\ user_file' = [user_file EXCEPT !.keys =
                            [k \in DOMAIN user_file.keys \cup {key} |->
                                IF k = key THEN value ELSE user_file.keys[k]]]
        /\ last' = Idle
        /\ UNCHANGED <<view, package, self, applied>>

\* The user removes one key from the user settings file.
RemoveUserSetting ==
    \E key \in {"syntaxes"} :
        /\ user_file.exists /\ key \in DOMAIN user_file.keys
        /\ user_file' = [user_file EXCEPT !.keys =
                            [k \in DOMAIN user_file.keys \ {key} |-> user_file.keys[k]]]
        /\ last' = Idle
        /\ UNCHANGED <<view, package, self, applied>>

\* The user types in the buffer, saves it under a name, or picks a syntax.
EditFirstLine ==
    \E line \in { <<>>, <<"#", "!", "/", "p">> } :
        /\ view' = [view EXCEPT !.first_line = line]
        /\ last' = Idle
        /\ UNCHANGED <<user_file, package, self, applied>>

SaveAs ==
    \E name \in FileNames \ {None} :
        /\ view' = [view EXCEPT !.file_name = name]
        /\ last' = Idle
        /\ UNCHANGED <<user_file, package, self, applied>>

UserSetSyntax ==
    \E syntax \in {InitialSyntax, new_syntax_of(SyntaxA)} :
        /\ view' = [view EXCEPT !.syntax = syntax]
        /\ last' = Idle
        /\ applied' = <<>>
        /\ UNCHANGED <<user_file, package, self>>

Next ==
    \/ on_new
    \/ on_load
    \/ on_post_save
    \/ EditUserSetting
    \/ RemoveUserSetting
    \/ EditFirstLine
    \/ SaveAs
    \/ UserSetSyntax

Spec == Init /\ [][Next]_vars

\* One predicate under test: a function predicate against every bounded file
\* path, or a binary predicate against every bounded first line.
PathChars == {"p", "n", "'", "\\"}
LineChars == {"#", "!", "p"}
ValueChars == {"p", "!"}

Literal(str) == [i \in 1..Len(str) |-> Lit(str[i])]

OneRule(rule) == [exists |-> TRUE,
                  keys |-> [reraise_exceptions |-> "false",
                            syntaxes |-> << [name |-> SyntaxA, match |-> "any",
                                             rules |-> <<rule>>] >>]]

InitPredicate ==
    /\ \/ /\ view \in [file_name : SeqsUpTo(PathChars, MaxPathLen),
                        first_line : { <<"#", "!", "/", "p">> },
                        scratch : {FALSE}, syntax : {InitialSyntax}]
          /\ \E f \in {"is_p", "echo", "boom"} : \E flag \in {"true", "false"} :
                user_file = [OneRule([function |-> [name |-> <<f>>, source |-> LibSource]])
                                EXCEPT !.keys.reraise_exceptions = flag]
       \/ /\ view \in [file_name : { <<"p">> },
                        first_line : SeqsUpTo(LineChars, MaxLineLen),
                        scratch : {FALSE}, syntax : {InitialSyntax}]
          /\ \E v \in SeqsUpTo(ValueChars, MaxValueLen) :
                user_file = OneRule([binary |-> Literal(v)])
    /\ package = <<>>
    /\ self = Constructed
    /\ last = Idle
    /\ applied = <<>>

NextPredicate ==
    \/ on_load
    \/ on_post_save

SpecPredicate == InitPredicate /\ [][NextPredicate]_vars

NextSelect ==
    \/ on_new
    \/ on_load
    \/ on_post_save

SpecSelect == InitSelect /\ [][NextSelect]_vars

\* ============================================================ claims ====
Detect == last.op \in {"on_load", "on_post_save"}

\* The configuration as the files hold it.
UserEntries ==
    IF user_file.exists /\ "syntaxes" \in DOMAIN user_file.keys THEN user_file.keys.syntaxes
    ELSE <<>>

DefaultEntries ==
    IF "default_syntaxes" \in DOMAIN package THEN package.default_syntaxes ELSE <<>>

RuleSet == UserEntries \o DefaultEntries

Strict ==
    /\ user_file.exists
    /\ "reraise_exceptions" \in DOMAIN user_file.keys
    /\ user_file.keys.reraise_exceptions = "true"

\* The file context of the view, as a listener holds it.
Context == [Constructed EXCEPT !.file_name = view.file_name, !.first_line = view.first_line,
                               !.reraise_exceptions = IF Strict THEN "true" ELSE "false"]

Min(S) == CHOOSE x \in S : \A y \in S : x <= y

\* What one predicate evaluates to on its own: "true", "false" or "raise".
Outcome(r) == IF r.raised THEN "raise" ELSE IF r.value THEN "true" ELSE "false"

PredVal(rule) == Outcome(rule_matches(Context, rule))

\* What one entry's rule evaluates to on its own: in all mode the first
\* predicate that is not true decides, in any mode the first that is not false.
EntryVal(entry) ==
    LET all == "match" \in DOMAIN entry /\ entry.match = "all"
        neutral == IF all THEN "true" ELSE "false"
        decisive == {j \in 1..Len(entry.rules) : PredVal(entry.rules[j]) # neutral}
    IN IF decisive = {} THEN neutral ELSE PredVal(entry.rules[Min(decisive)])

\* No pattern of the rule set is malformed.
WellFormed ==
    \A i \in 1..Len(RuleSet) : \A j \in 1..Len(RuleSet[i].rules) :
        \A key \in DOMAIN RuleSet[i].rules[j] \ {"function"} :
            ~re_error(RuleSet[i].rules[j][key])

EntriesEvaluated == {last.log[k].entry : k \in 1..Len(last.log)}

Unchanged == last.set_name = None /\ last.outcome = "none" /\ view.syntax = last.before

\* What set_syntax leaves as the view's syntax for a logical name.
SyntaxAfter(name) ==
    IF new_syntax_of(name) \in SyntaxResources THEN new_syntax_of(name) ELSE last.before

\* C1 (as amended): on a load/save event for a view with a file path, a
\* scratch view is skipped; otherwise the entries are evaluated in order up to
\* the first whose rule is not false: if it is true its name goes to
\* set_syntax (which makes it the view's syntax when its resource exists) and
\* no later entry is evaluated; if it raises, or no entry is true, nothing is
\* applied and the view's syntax is unchanged.
C1_FirstMatch ==
    (Detect /\ view.file_name # None) =>
        IF view.scratch THEN ~last.loaded /\ last.log = <<>> /\ Unchanged
        ELSE LET decisive == {i \in 1..Len(RuleSet) : EntryVal(RuleSet[i]) # "false"}
             IN IF decisive = {}
                THEN Unchanged /\ ~last.raised
                ELSE /\ EntriesEvaluated \subseteq 1..Min(decisive)
                     /\ IF EntryVal(RuleSet[Min(decisive)]) = "true"
                        THEN /\ last.chosen = Min(decisive)
                             /\ last.set_name = RuleSet[Min(decisive)].name
                             /\ view.syntax = SyntaxAfter(last.set_name)
                        ELSE last.raised /\ Unchanged

\* C1 witness: the first matching entry is not the first entry, entries follow
\* it, and its syntax was applied.
C1_Witness ==
    /\ Detect /\ view.file_name # None /\ ~view.scratch
    /\ last.chosen >= 2 /\ last.chosen < Len(RuleSet)
    /\ last.outcome = "Applied"

\* C1 (as stated), on rule sets without malformed patterns: every load/save
\* event on a view with a file path applies the first entry whose rule is
\* true and evaluates no entry after it, and changes nothing if none is true.
C1_Original ==
    (Detect /\ view.file_name # None /\ WellFormed) =>
        LET trues == {i \in 1..Len(RuleSet) : EntryVal(RuleSet[i]) = "true"}
        IN IF trues = {} THEN Unchanged
           ELSE /\ last.set_name = RuleSet[Min(trues)].name
                /\ EntriesEvaluated \subseteq 1..Min(trues)

BothMatch ==
    /\ \E u \in 1..Len(UserEntries) : EntryVal(UserEntries[u]) = "true"
    /\ \E d \in 1..Len(DefaultEntries) : EntryVal(DefaultEntries[d]) = "true"

\* C2 (as amended): the rule set an event evaluates is the user entries
\* followed by the default entries, an absent side being empty; when a user
\* entry and a default entry both match and no exception aborts the scan, the
\* entry selected is a user entry.
C2_UserFirst ==
    last.loaded =>
        /\ self.syntaxes = UserEntries \o DefaultEntries
        /\ (BothMatch /\ ~last.raised) =>
              /\ last.chosen \in 1..Len(UserEntries)
              /\ last.set_name = UserEntries[last.chosen].name

\* C2 witness: a user entry and a default entry both match and the user
\* entry was selected.
C2_Witness ==
    /\ last.loaded /\ BothMatch
    /\ last.chosen \in 1..Len(UserEntries)
    /\ last.outcome = "Applied"

\* C2 (as stated), on rule sets without malformed patterns: whenever a user
\* entry and a default entry both match, a user entry's syntax is selected.
C2_Original ==
    (last.loaded /\ WellFormed) =>
        /\ self.syntaxes = UserEntries \o DefaultEntries
        /\ BothMatch =>
              /\ last.chosen \in 1..Len(UserEntries)
              /\ last.set_name = UserEntries[last.chosen].name

\* C3 (as stated): a load/save event on a view without a file path loads no
\* rule set, evaluates no predicate and applies no syntax.
C3_Claim ==
    (Detect /\ view.file_name = None) =>
        ~last.loaded /\ last.log = <<>> /\ Unchanged

\* C4 (as stated): in default mode no predicate evaluation raises.
C4_Claim ==
    (Detect /\ last.loaded /\ ~Strict) =>
        /\ ~last.raised
        /\ \A k \in 1..Len(last.log) : ~last.log[k].raised

\* The text an external predicate's source resolves to, if it can be read.
SourcePath(function) ==
    LET named == IF "source" \in DOMAIN function /\ Truthy(function.source)
                 THEN function.source ELSE function.name \o <<".py">>
    IN IF isabs(named) \/ PackagesPrefix(named) THEN named
       ELSE <<"Packages", "/", "ApplySyntax", sep>> \o named

SourceReadable(function) ==
    IF isabs(SourcePath(function)) THEN SourcePath(function) \in FileSources
    ELSE SourcePath(function) \in PackagedSources

\* A predicate-level failure: an external source that cannot be read or does
\* not execute, a call that fails, a malformed pattern handed to re.match.
SourceText(function) ==
    IF SourcePath(function) \in FileSources THEN BrokenText ELSE GoodText

Fails(rule) ==
    IF "function" \in DOMAIN rule
    THEN \/ ~SourceReadable(rule.function)
         \/ ~SourceText(rule.function).ok
         \/ eval_call(Context, SourceText(rule.function), rule.function.name).raised
    ELSE \E key \in {"first_line", "binary", "file_name"} \cap DOMAIN rule :
            /\ re_error(rule[key])
            /\ Truthy(IF key = "file_name" THEN view.file_name ELSE view.first_line)

LoggedRule(k) == RuleSet[last.log[k].entry].rules[last.log[k].pred]

\* C5: in strict mode every predicate-level failure met during the scan
\* raises, the raising predicate is the last one evaluated, and the event
\* applies no syntax.
C5_StrictAborts ==
    (Detect /\ last.loaded /\ Strict) =>
        \A k \in 1..Len(last.log) :
            /\ last.log[k].raised <=> Fails(LoggedRule(k))
            /\ last.log[k].raised => (k = Len(last.log) /\ last.raised /\ Unchanged)

\* C5 witness: a strict-mode scan was aborted although a later entry matches.
C5_Witness ==
    /\ Detect /\ last.loaded /\ Strict /\ last.raised
    /\ \E i \in 1..Len(RuleSet) :
          /\ i > last.log[Len(last.log)].entry
          /\ EntryVal(RuleSet[i]) = "true"

IsAll(i) == "match" \in DOMAIN RuleSet[i] /\ RuleSet[i].match = "all"

\* C8: within an entry the predicates are evaluated in declared order from the
\* first; in all mode none follows one that was false and the rule is then
\* false, in any mode none follows one that was true and the rule is then true.
C8_ShortCircuit ==
    (Detect /\ last.loaded) =>
        \A k \in 1..Len(last.log) :
            LET e == last.log[k]
                first == k = 1 \/ last.log[k - 1].entry # e.entry
                final == k = Len(last.log) \/ last.log[k + 1].entry # e.entry
                stops == ~e.raised /\ (e.value = ~IsAll(e.entry))
            IN /\ first => e.pred = 1
               /\ ~first => e.pred = last.log[k - 1].pred + 1
               /\ stops => final
               /\ (stops /\ IsAll(e.entry)) => last.chosen # e.entry
               /\ (stops /\ ~IsAll(e.entry)) => last.chosen = e.entry

\* C8 witness: an all-mode rule stopped at a false first predicate and an
\* any-mode rule stopped at a true first predicate, each with predicates left.
C8_Witness ==
    /\ Detect /\ last.loaded
    /\ \E k \in 1..Len(last.log) :
          /\ IsAll(last.log[k].entry) /\ ~last.log[k].raised /\ ~last.log[k].value
          /\ last.log[k].pred < Len(RuleSet[last.log[k].entry].rules)
    /\ \E k \in 1..Len(last.log) :
          /\ ~IsAll(last.log[k].entry) /\ last.log[k].value
          /\ last.log[k].pred < Len(RuleSet[last.log[k].entry].rules)

\* The single predicate of a configuration with one entry of one predicate.
TheRule == RuleSet[1].rules[1]

BinaryEvent ==
    /\ Detect /\ last.loaded /\ Len(RuleSet) = 1 /\ Len(RuleSet[1].rules) = 1
    /\ "binary" \in DOMAIN TheRule

\* The first line is "#!", then at least `least` characters, then the
\* literal value.
ShebangThen(line, value, least) ==
    \E n \in least..Len(line) :
        /\ Len(line) >= 2 + n + Len(value)
        /\ line[1] = "#" /\ line[2] = "!"
        /\ \A i \in 1..Len(value) : line[2 + n + i] = value[i].c

\* C9 (as amended): a binary predicate with a literal value v is true exactly
\* when the first line is "#!", then one or more characters, then v.
C9_Binary ==
    BinaryEvent =>
        /\ Len(last.log) = 1 /\ ~last.log[1].raised
        /\ last.log[1].value = ShebangThen(view.first_line, TheRule.binary, 1)

\* C9 witness: a binary predicate with a non-empty value matched.
C9_Witness ==
    BinaryEvent /\ TheRule.binary # <<>> /\ last.log[1].value /\ last.outcome = "Applied"

\* C9 (as stated): ... then zero or more characters, then v.
C9_Original ==
    BinaryEvent =>
        last.log[1].value = ShebangThen(view.first_line, TheRule.binary, 0)

\* C10 (as stated): when the source of an external predicate loads, its
\* procedure is called with the file path and the predicate is the truth of
\* what the procedure returns.
C10_Claim ==
    (/\ Detect /\ last.loaded /\ Len(RuleSet) = 1 /\ Len(RuleSet[1].rules) = 1
     /\ "function" \in DOMAIN TheRule
     /\ SourceReadable(TheRule.function) /\ SourceText(TheRule.function).ok
     /\ view.file_name # None) =>
        LET call == ProcCall(SourceText(TheRule.function).defs[TheRule.function.name[1]],
                             view.file_name)
        IN /\ Len(last.log) = 1
           /\ last.log[1].arg = view.file_name
           /\ ~call.raised => (~last.log[1].raised /\ last.log[1].value = call.value)

SameTwice ==
    /\ Len(applied) = 2
    /\ applied[1].name = applied[2].name
    /\ new_syntax_of(applied[1].name) \in SyntaxResources

\* C6 (as amended): of two consecutive applications of one name whose
\* resource exists, the second is Skipped, and the first is Applied exactly
\* when the view's syntax was not already that resource: the view's syntax is
\* set at most once.
C6_Idempotent ==
    SameTwice =>
        /\ applied[2].outcome = "Skipped"
        /\ applied[1].outcome =
              IF applied[1].before = new_syntax_of(applied[1].name) THEN "Skipped"
              ELSE "Applied"

\* C6 witness: the same name applied twice, Applied and then Skipped.
C6_Witness ==
    SameTwice /\ applied[1].outcome = "Applied" /\ applied[2].outcome = "Skipped"

\* C6 (as stated): the first application is Applied and the second Skipped.
C6_Original ==
    SameTwice => (applied[1].outcome = "Applied" /\ applied[2].outcome = "Skipped")

\* The scan a newly constructed listener makes of the present configuration
\* for the present view.
FreshScan ==
    syntaxes_loop([Context EXCEPT !.syntaxes = RuleSet], 1, <<>>)

\* C7: a load/save evaluation holds the entries, the strict flag, the file
\* name and the first line of the present configuration and view, and scans
\* as a listener without any earlier event would.
C7_NoCache ==
    (Detect /\ last.loaded) =>
        /\ self.syntaxes = RuleSet
        /\ TruthyFlag(self.reraise_exceptions) = Strict
        /\ self.file_name = view.file_name
        /\ self.first_line = view.first_line
        /\ last.log = FreshScan.log
        /\ last.chosen = FreshScan.chosen
        /\ last.raised = FreshScan.raised

\* C7 witness: the entries, strict flag, file name and first line cached by
\* an earlier event all differed from those of this event, which selected a
\* syntax.
C7_Witness ==
    Detect /\ last.loaded /\ last.stale /\ last.chosen # 0
====
